---- MODULE Spec2Model ----
(***************************************************************************)
(* Display name picker of matrix-synapse-saml-touchstone                   *)
(* (matrix_synapse_saml_touchstone/displayname_picker.py).                 *)
(*                                                                         *)
(* Text is a sequence of one-character strings, cookie bytes and decoded   *)
(* session identifiers are sequences of code points, an error message is a *)
(* sequence of tokens (html.escape acts token by token).  Python's None is *)
(* the empty tuple; a cookie that is present is the one-element tuple of   *)
(* its bytes.  One action is one run of a handler between two awaits on a  *)
(* collaborator: the event loop runs nothing else in between.              *)
(***************************************************************************)
EXTENDS Integers, Sequences, FiniteSets, TLC

\* faulty variant of MAX_FAILURES: one retry more
MAX_FAILURES_one_more == 9 + 1

\* displayname_picker.py:41
MAX_FAILURES == 9

\* number of HTTP requests the model lets arrive
NumRequests == 2
\* how many of the candidate user names of a session may be registered
\* before the first request arrives
MaxTaken == 10

Requests == 1..NumRequests

None == <<>>

(***************************************************************************)
(* The session store (_sessions.displayname_mapping_sessions) as the       *)
(* identity-provider callback left it.                                     *)
(***************************************************************************)
SessionIds == {<<115, 49>>, <<115, 50>>}

InitialSessions ==
    [sid \in SessionIds |->
        IF sid = <<115, 49>>
        THEN [email |-> <<"a", "l", "@", "m">>,
              remote_user_id |-> "uid-al",
              affiliation |-> "student",
              client_redirect_url |-> "https://client/al",
              displayname |-> "Al Default"]
        ELSE [email |-> <<"b", "o", "@", "m">>,
              remote_user_id |-> "uid-bo",
              affiliation |-> "staff",
              client_redirect_url |-> "https://client/bo",
              displayname |-> ""]]

\* request.getCookie(SESSION_COOKIE_NAME): None, empty, a known id, an unknown
\* id, an id with a byte outside ASCII
CookieValues ==
    {None} \cup
    {<<bytes>> : bytes \in {<<>>, <<115, 49>>, <<115, 50>>, <<122>>, <<115, 177>>}}

\* request.args: with or without the displayname field
ArgsValues == {[f \in {} |-> <<>>], [f \in {"displayname"} |-> <<"Dee">>]}

(***************************************************************************)
(* Pure helpers                                                            *)
(***************************************************************************)
\* bytes.decode("ascii", errors="replace")
decode_ascii(bytes) ==
    [i \in 1..Len(bytes) |-> IF bytes[i] < 128 THEN bytes[i] ELSE 65533]

\* str.split('@')[0]
RECURSIVE split_at_0(_)
split_at_0(s) ==
    IF s = <<>> \/ Head(s) = "@" THEN <<>>
    ELSE <<Head(s)>> \o split_at_0(Tail(s))

\* str(int)
RECURSIVE str_int(_)
str_int(n) ==
    LET digit == <<"0", "1", "2", "3", "4", "5", "6", "7", "8", "9">>
    IN IF n < 10 THEN <<digit[n + 1]>>
       ELSE str_int(n \div 10) \o <<digit[(n % 10) + 1]>>

\* faulty variant of localpart_of: the suffix counts the attempts, not the failures
localpart_of_attempts(email, num_failures) ==
    IF num_failures > 0
    THEN split_at_0(email) \o str_int(num_failures + 1)
    ELSE split_at_0(email)

\* localpart of a submission at a given retry depth (lines 191-195)
localpart_of(email, num_failures) ==
    IF num_failures > 0
    THEN split_at_0(email) \o str_int(num_failures)
    ELSE split_at_0(email)

\* html.escape on one token
html_escape_token(t) ==
    CASE t = "<" -> "&lt;"
      [] t = ">" -> "&gt;"
      [] t = "&" -> "&amp;"
      [] t = "\"" -> "&quot;"
      [] t = "'" -> "&#x27;"
      [] OTHER -> t

html_escape(msg) == [i \in 1..Len(msg) |-> html_escape_token(msg[i])]

\* HTML_ERROR_TEMPLATE.format(code=code, msg=html.escape(msg))
HTML_ERROR_TEMPLATE(code, msg) == [title |-> code, p |-> msg]

(***************************************************************************)
(* The host's request object (twisted.web.http.Request) as the handlers    *)
(* use it.  wire is what reached the client: the status line and cookies   *)
(* sent with the first write, None while nothing was sent.  errors is the  *)
(* history of the calls of _return_html_error for the request.             *)
(***************************************************************************)
NewRequest(method, cookie, args, disconnected) ==
    [method |-> method, cookie |-> cookie, args |-> args,
     code |-> 200, cookies |-> <<>>, wire |-> None, pages |-> <<>>,
     finished |-> FALSE, disconnected |-> disconnected, errors |-> <<>>]

NoRequest == NewRequest("", None, [f \in {} |-> <<>>], FALSE)

\* request.write(body): RuntimeError after finish, dropped after the
\* connection is lost, otherwise the headers go out with the first write
request_write(rq, body) ==
    IF rq.finished THEN [rq |-> rq, raised |-> TRUE]
    ELSE IF rq.disconnected THEN [rq |-> rq, raised |-> FALSE]
    ELSE [rq |-> [rq EXCEPT
                    !.wire = IF @ = None
                             THEN [code |-> rq.code, cookies |-> rq.cookies]
                             ELSE @,
                    !.pages = Append(@, body)],
          raised |-> FALSE]

\* request.finish(): RuntimeError once the connection is lost, a warning
\* when called twice
request_finish(rq) ==
    IF rq.disconnected THEN [rq |-> rq, raised |-> TRUE]
    ELSE IF rq.finished THEN [rq |-> rq, raised |-> FALSE]
    ELSE [rq |-> [request_write(rq, <<>>).rq EXCEPT
                    !.pages = rq.pages, !.finished = TRUE],
          raised |-> FALSE]

HELP_SUFFIX == " Please email matrix@mit.edu for help."

\* faulty variant of return_html_error: the RuntimeError of request.finish
\* is not caught
return_html_error_unguarded(code, msg, rq) ==
    LET body == HTML_ERROR_TEMPLATE(code, html_escape(Append(msg, HELP_SUFFIX)))
        r1 == [rq EXCEPT !.code = code, !.errors = Append(@, <<code, msg>>)]
        w == request_write(r1, body)
    IN IF w.raised THEN [rq |-> w.rq, raised |-> TRUE]
       ELSE request_finish(w.rq)

\* _return_html_error(code, msg, request); raised: an exception leaves it
return_html_error(code, msg, rq) ==
    LET body == HTML_ERROR_TEMPLATE(code, html_escape(Append(msg, HELP_SUFFIX)))
        r1 == [rq EXCEPT !.code = code, !.errors = Append(@, <<code, msg>>)]
        w == request_write(r1, body)
    IN IF w.raised THEN [rq |-> w.rq, raised |-> TRUE]
       ELSE [rq |-> request_finish(w.rq).rq, raised |-> FALSE]

INTERNAL_ERROR == <<"Internal server error">>

\* faulty variant of wrap_for_html_exceptions: the exception is not caught
wrap_for_html_exceptions_absent(rq, depth) == [rq |-> rq, escaped |-> TRUE]

\* _wrap_for_html_exceptions: an exception raised in the handler frame at
\* recursion depth `depth`; every enclosing frame of async_render_POST is
\* wrapped again.  escaped: the exception leaves the outermost wrapper.
RECURSIVE wrap_for_html_exceptions(_, _)
wrap_for_html_exceptions(rq, depth) ==
    LET e == return_html_error(500, INTERNAL_ERROR, rq)
    IN IF ~e.raised THEN [rq |-> e.rq, escaped |-> FALSE]
       ELSE IF depth = 0 THEN [rq |-> e.rq, escaped |-> TRUE]
       ELSE wrap_for_html_exceptions(e.rq, depth - 1)

\* _sessions.get_mapping_session(session_id)
get_mapping_session(session_id, sessions) ==
    IF session_id \in DOMAIN sessions THEN sessions[session_id] ELSE None

\* faulty variant of get_session: the two status codes the wrong way round
get_session_codes_swapped(rq, sessions) ==
    IF rq.cookie = None \/ rq.cookie[1] = <<>>
    THEN [rq |-> return_html_error(403, <<"missing session_id">>, rq).rq,
          result |-> None]
    ELSE LET session_id == decode_ascii(rq.cookie[1])
             session == get_mapping_session(session_id, sessions)
         IN IF session = None
            THEN [rq |-> return_html_error(400, <<"Unknown session">>, rq).rq,
                  result |-> None]
            ELSE [rq |-> rq,
                  result |-> [session_id |-> session_id, session |-> session]]

\* _get_session(request); result None: the bare `return` after an error page
get_session(rq, sessions) ==
    IF rq.cookie = None \/ rq.cookie[1] = <<>>
    THEN [rq |-> return_html_error(400, <<"missing session_id">>, rq).rq,
          result |-> None]
    ELSE LET session_id == decode_ascii(rq.cookie[1])
             session == get_mapping_session(session_id, sessions)
         IN IF session = None
            THEN [rq |-> return_html_error(403, <<"Unknown session">>, rq).rq,
                  result |-> None]
            ELSE [rq |-> rq,
                  result |-> [session_id |-> session_id, session |-> session]]

NoFrame ==
    [session_id |-> None, session |-> None, localpart |-> None,
     displayname |-> None, registered_user_id |-> None,
     affiliation_id |-> None]

\* faulty variant of post_enter: a missing displayname field is taken as an empty
\* display name
post_enter_default_displayname(rq, num_failures, sessions) ==
    LET gs == get_session(rq, sessions)
    IN IF gs.result = None
       THEN LET w == wrap_for_html_exceptions(gs.rq, num_failures)
            IN [kind |-> IF w.escaped THEN "escaped" ELSE "returned",
                rq |-> w.rq, frame |-> NoFrame]
       ELSE [kind |-> "call", rq |-> gs.rq,
             frame |-> [session_id |-> gs.result.session_id,
                        session |-> gs.result.session,
                        localpart |-> localpart_of(gs.result.session.email,
                                                   num_failures),
                        displayname |->
                            IF "displayname" \in DOMAIN rq.args
                            THEN rq.args["displayname"][1] ELSE "",
                        registered_user_id |-> None,
                        affiliation_id |-> None]]

\* async_render_POST from its first line to the register_user call (lines
\* 170-204) at recursion depth num_failures.  kind "call": register_user is
\* called and awaited; otherwise the handler has ended.
post_enter(rq, num_failures, sessions) ==
    LET gs == get_session(rq, sessions)
    IN IF gs.result = None
       THEN \* `session_id, session = None` raises TypeError
            LET w == wrap_for_html_exceptions(gs.rq, num_failures)
            IN [kind |-> IF w.escaped THEN "escaped" ELSE "returned",
                rq |-> w.rq, frame |-> NoFrame]
       ELSE IF "displayname" \notin DOMAIN rq.args
       THEN LET e == return_html_error(400, <<"missing display name">>, gs.rq)
                w == wrap_for_html_exceptions(e.rq, num_failures)
            IN IF ~e.raised
               THEN [kind |-> "returned", rq |-> e.rq, frame |-> NoFrame]
               ELSE [kind |-> IF w.escaped THEN "escaped" ELSE "returned",
                     rq |-> w.rq, frame |-> NoFrame]
       ELSE [kind |-> "call", rq |-> gs.rq,
             frame |-> [session_id |-> gs.result.session_id,
                        session |-> gs.result.session,
                        localpart |-> localpart_of(gs.result.session.email,
                                                   num_failures),
                        displayname |-> rq.args["displayname"][1],
                        registered_user_id |-> None,
                        affiliation_id |-> None]]

(***************************************************************************)
(* The collaborators (synapse.module_api.ModuleApi)                        *)
(***************************************************************************)
\* the user id register_user returns for a localpart
user_id_of(localpart) == <<"@">> \o localpart \o <<":", "m">>

USER_IN_USE ==
    [kind |-> "SynapseError", code |-> 400,
     msg |-> <<"User ID already taken.">>, errcode |-> "M_USER_IN_USE"]

\* a registration error of another kind
OtherSynapseErrors ==
    {[kind |-> "SynapseError", code |-> 429,
      msg |-> <<"Too Many Requests ", "<", "&", ">">>,
      errcode |-> "M_LIMIT_EXCEEDED"]}

OK == [kind |-> "ok"]
OtherException == [kind |-> "Exception"]

\* what register_user(localpart, ...) may do, given the registered users
register_user(localpart, registered) ==
    (IF localpart \in registered THEN {USER_IN_USE} ELSE {OK})
        \cup OtherSynapseErrors \cup {OtherException}

\* the candidate user names of a session, the first k of them
candidates(email, k) == {localpart_of(email, i) : i \in 0..(k - 1)}

VARIABLES
    displayname_mapping_sessions,  \* _sessions.displayname_mapping_sessions
    users,            \* localparts registered at the host
    external_ids,     \* records written by record_user_external_id, in order
    sso_calls,        \* calls of complete_sso_login_async, in order
    uuids,            \* number of uuid4() calls so far
    request,          \* request[r]: the request object of request r
    pc,               \* pc[r]: where the handler of request r is
    num_failures,     \* num_failures[r]: recursion depth of async_render_POST
    frame,            \* frame[r]: the locals of the innermost frame
    register_calls,   \* register_calls[r]: the register_user calls of r
    last_error,       \* last_error[r]: the last SynapseError request r caught
    caught,           \* caught[r]: how many SynapseErrors request r caught
    ended             \* ended[r]: "" running, "returned", "escaped"

vars == <<displayname_mapping_sessions, users, external_ids, sso_calls, uuids,
          request, pc, num_failures, frame, register_calls, last_error,
          caught, ended>>

shared == <<displayname_mapping_sessions, users, external_ids, sso_calls, uuids>>

Init ==
    /\ displayname_mapping_sessions = InitialSessions
    /\ users \in {candidates(InitialSessions[<<115, 49>>].email, k) :
                    k \in {0, MaxTaken}}
    /\ external_ids = <<>>
    /\ sso_calls = <<>>
    /\ uuids = 0
    /\ request = [r \in Requests |-> NoRequest]
    /\ pc = [r \in Requests |-> "idle"]
    /\ num_failures = [r \in Requests |-> 0]
    /\ frame = [r \in Requests |-> NoFrame]
    /\ register_calls = [r \in Requests |-> <<>>]
    /\ last_error = [r \in Requests |-> None]
    /\ caught = [r \in Requests |-> 0]
    /\ ended = [r \in Requests |-> ""]

\* the handler of request r ends: it returned, or an exception left it
Ends(r, rq, escaped) ==
    /\ request' = [request EXCEPT ![r] = rq]
    /\ pc' = [pc EXCEPT ![r] = "done"]
    /\ ended' = [ended EXCEPT ![r] = IF escaped THEN "escaped" ELSE "returned"]

\* faulty variant of Raises: the wrapper also deletes the session cookie
Raises_drops_cookie(r, rq) ==
    LET w == wrap_for_html_exceptions(rq, num_failures[r])
    IN Ends(r, [w.rq EXCEPT !.cookies = Append(@, [name |-> "session"])],
            w.escaped)

\* an exception is raised in the innermost frame of the handler of request r
Raises(r, rq) ==
    LET w == wrap_for_html_exceptions(rq, num_failures[r])
    IN Ends(r, w.rq, w.escaped)

\* requests are numbered in the order of their arrival
Arrives(r) ==
    /\ pc[r] = "idle"
    /\ \A q \in Requests : q < r => pc[q] # "idle"

\* FormResource.async_render_GET, the whole handler (it awaits nothing)
RenderGET(r) ==
    /\ Arrives(r)
    /\ \E cookie \in CookieValues, disconnected \in BOOLEAN :
        LET rq == NewRequest("GET", cookie, [f \in {} |-> <<>>], disconnected)
            gs == get_session(rq, displayname_mapping_sessions)
            kerb == split_at_0(gs.result.session.email)
            body == [kerb |-> kerb, displayname |-> gs.result.session.displayname]
            w == request_write([gs.rq EXCEPT !.code = 200], body)
        IN IF gs.result = None
           THEN LET x == wrap_for_html_exceptions(gs.rq, 0)
                IN Ends(r, x.rq, x.escaped)
           ELSE IF w.raised
           THEN LET x == wrap_for_html_exceptions(w.rq, 0)
                IN Ends(r, x.rq, x.escaped)
           ELSE Ends(r, request_finish(w.rq).rq, FALSE)
    /\ UNCHANGED <<shared, num_failures, frame, register_calls, last_error,
                   caught>>

\* faulty variant of Enter: a retry keeps the session of the first attempt
\* instead of resolving it again
Enter_keeps_session(r, rq, nf) ==
    LET e == IF nf = 0
             THEN post_enter(rq, nf, displayname_mapping_sessions)
             ELSE [kind |-> "call", rq |-> rq,
                   frame |-> [frame[r] EXCEPT
                                !.localpart =
                                    localpart_of(frame[r].session.email, nf)]]
    IN IF e.kind = "call"
       THEN /\ request' = [request EXCEPT ![r] = e.rq]
            /\ pc' = [pc EXCEPT ![r] = "register"]
            /\ num_failures' = [num_failures EXCEPT ![r] = nf]
            /\ frame' = [frame EXCEPT ![r] = e.frame]
            /\ register_calls' =
                 [register_calls EXCEPT ![r] =
                    Append(@, [localpart |-> e.frame.localpart,
                               displayname |-> e.frame.displayname,
                               emails |-> <<e.frame.session.email>>])]
            /\ UNCHANGED ended
       ELSE /\ Ends(r, e.rq, e.kind = "escaped")
            /\ UNCHANGED <<num_failures, frame, register_calls>>

\* async_render_POST entered at depth nf with request object rq
Enter(r, rq, nf) ==
    LET e == post_enter(rq, nf, displayname_mapping_sessions)
    IN IF e.kind = "call"
       THEN /\ request' = [request EXCEPT ![r] = e.rq]
            /\ pc' = [pc EXCEPT ![r] = "register"]
            /\ num_failures' = [num_failures EXCEPT ![r] = nf]
            /\ frame' = [frame EXCEPT ![r] = e.frame]
            /\ register_calls' =
                 [register_calls EXCEPT ![r] =
                    Append(@, [localpart |-> e.frame.localpart,
                               displayname |-> e.frame.displayname,
                               emails |-> <<e.frame.session.email>>])]
            /\ UNCHANGED ended
       ELSE /\ Ends(r, e.rq, e.kind = "escaped")
            /\ UNCHANGED <<num_failures, frame, register_calls>>

\* SubmitResource.async_render_POST from the arrival of the request to its
\* first await
RenderPOST(r) ==
    /\ Arrives(r)
    /\ \E cookie \in CookieValues, args \in ArgsValues, disconnected \in BOOLEAN :
        Enter(r, NewRequest("POST", cookie, args, disconnected), 0)
    /\ UNCHANGED <<shared, last_error, caught>>

\* faulty variant of RegisterSucceeds: the registration leaves no trace at the host
RegisterSucceedsUnrecorded(r) ==
    /\ frame' = [frame EXCEPT ![r].registered_user_id =
                                 user_id_of(frame[r].localpart)]
    /\ pc' = [pc EXCEPT ![r] = "saml"]
    /\ UNCHANGED <<displayname_mapping_sessions, users, external_ids,
                   sso_calls, uuids, request, num_failures, register_calls,
                   last_error, caught, ended>>

\* faulty variant of RegisterSucceeds: record_user_external_id("saml", ...)
\* completes without an await
RegisterSucceedsWritesSaml(r) ==
    /\ users' = users \cup {frame[r].localpart}
    /\ external_ids' =
         Append(external_ids,
                [auth_provider |-> "saml",
                 external_id |-> <<frame[r].session.remote_user_id>>,
                 user_id |-> user_id_of(frame[r].localpart)])
    /\ uuids' = uuids + 1
    /\ frame' = [frame EXCEPT
                   ![r].registered_user_id = user_id_of(frame[r].localpart),
                   ![r].affiliation_id =
                       <<frame[r].session.affiliation, "|", uuids + 1>>]
    /\ pc' = [pc EXCEPT ![r] = "affiliation"]
    /\ UNCHANGED <<displayname_mapping_sessions, sso_calls, request,
                   num_failures, register_calls, last_error, caught, ended>>

\* register_user returns (lines 202-204, 212-214): the user is registered
\* and record_user_external_id("saml", ...) is called
RegisterSucceeds(r) ==
    /\ users' = users \cup {frame[r].localpart}
    /\ frame' = [frame EXCEPT ![r].registered_user_id =
                                 user_id_of(frame[r].localpart)]
    /\ pc' = [pc EXCEPT ![r] = "saml"]
    /\ UNCHANGED <<displayname_mapping_sessions, external_ids, sso_calls,
                   uuids, request, num_failures, register_calls, last_error,
                   caught, ended>>

\* faulty variant of RegisterRejected: the retry does not count the failure
RegisterRejected_uncounted(r, e) ==
    /\ last_error' = [last_error EXCEPT ![r] = e]
    /\ caught' = [caught EXCEPT ![r] = @ + 1]
    /\ IF num_failures[r] < MAX_FAILURES
       THEN Enter(r, request[r], num_failures[r])
       ELSE LET x == return_html_error(e.code, e.msg, request[r])
            IN /\ IF x.raised THEN Raises(r, x.rq) ELSE Ends(r, x.rq, FALSE)
               /\ UNCHANGED <<num_failures, frame, register_calls>>
    /\ UNCHANGED shared

\* register_user raises the SynapseError e (lines 205-210): the handler calls
\* itself with num_failures + 1, or gives up with the error page of e
RegisterRejected(r, e) ==
    /\ last_error' = [last_error EXCEPT ![r] = e]
    /\ caught' = [caught EXCEPT ![r] = @ + 1]
    /\ IF num_failures[r] < MAX_FAILURES
       THEN Enter(r, request[r], num_failures[r] + 1)
       ELSE LET x == return_html_error(e.code, e.msg, request[r])
            IN /\ IF x.raised THEN Raises(r, x.rq) ELSE Ends(r, x.rq, FALSE)
               /\ UNCHANGED <<num_failures, frame, register_calls>>
    /\ UNCHANGED shared

\* faulty variant of RegisterRaises: the session is dropped when registration fails
RegisterRaisesDropsSession(r) ==
    /\ Raises(r, request[r])
    /\ displayname_mapping_sessions' =
         [sid \in DOMAIN displayname_mapping_sessions \ {frame[r].session_id}
            |-> displayname_mapping_sessions[sid]]
    /\ UNCHANGED <<users, external_ids, sso_calls, uuids, num_failures, frame,
                   register_calls, last_error, caught>>

\* register_user raises another exception: it reaches the wrapper (line 94)
RegisterRaises(r) ==
    /\ Raises(r, request[r])
    /\ UNCHANGED <<shared, num_failures, frame, register_calls, last_error,
                   caught>>

\* the await of register_user ends (lines 201-210)
RegisterUserReturns(r) ==
    /\ pc[r] = "register"
    /\ \E o \in register_user(frame[r].localpart, users) :
        CASE o.kind = "ok" -> RegisterSucceeds(r)
          [] o.kind = "SynapseError" -> RegisterRejected(r, o)
          [] OTHER -> RegisterRaises(r)

\* faulty variant of RecordSamlReturns: the session is deleted before the
\* affiliation record is requested
RecordSamlReturnsDeletesEarly(r) ==
    /\ pc[r] = "saml"
    /\ \E o \in {OK, OtherException} :
        IF o.kind = "ok"
        THEN /\ external_ids' =
                  Append(external_ids,
                         [auth_provider |-> "saml",
                          external_id |-> <<frame[r].session.remote_user_id>>,
                          user_id |-> frame[r].registered_user_id])
             /\ displayname_mapping_sessions' =
                  [sid \in DOMAIN displayname_mapping_sessions
                           \ {frame[r].session_id} |->
                      displayname_mapping_sessions[sid]]
             /\ uuids' = uuids + 1
             /\ frame' = [frame EXCEPT ![r].affiliation_id =
                            <<frame[r].session.affiliation, "|", uuids + 1>>]
             /\ pc' = [pc EXCEPT ![r] = "affiliation"]
             /\ UNCHANGED <<users, sso_calls, request, num_failures,
                            register_calls, last_error, caught, ended>>
        ELSE /\ Raises(r, request[r])
             /\ UNCHANGED <<shared, num_failures, frame, register_calls,
                            last_error, caught>>

\* the await of record_user_external_id("saml", ...) ends (lines 212-224):
\* the record is written and the affiliation record is requested with a
\* fresh uuid4(), or the call raised
RecordSamlReturns(r) ==
    /\ pc[r] = "saml"
    /\ \E o \in {OK, OtherException} :
        IF o.kind = "ok"
        THEN /\ external_ids' =
                  Append(external_ids,
                         [auth_provider |-> "saml",
                          external_id |-> <<frame[r].session.remote_user_id>>,
                          user_id |-> frame[r].registered_user_id])
             /\ uuids' = uuids + 1
             /\ frame' = [frame EXCEPT ![r].affiliation_id =
                            <<frame[r].session.affiliation, "|", uuids + 1>>]
             /\ pc' = [pc EXCEPT ![r] = "affiliation"]
             /\ UNCHANGED <<displayname_mapping_sessions, users, sso_calls,
                            request, num_failures, register_calls, last_error,
                            caught, ended>>
        ELSE /\ Raises(r, request[r])
             /\ UNCHANGED <<shared, num_failures, frame, register_calls,
                            last_error, caught>>

\* faulty variant of delete_cookie: the cookie is left alone
delete_cookie_forgotten(rq) == rq

SESSION_COOKIE_NAME == "displayname_mapping_session"

\* request.addCookie(SESSION_COOKIE_NAME, b"", expires=epoch, path=b"/")
delete_cookie(rq) ==
    [rq EXCEPT !.cookies =
        Append(@, [name |-> SESSION_COOKIE_NAME, value |-> <<>>,
                   expires |-> "Thu, 01 Jan 1970 00:00:00 GMT", path |-> "/"])]

\* the await of record_user_external_id("affiliation", ...) ends (lines
\* 222-240): the record is written, the session is deleted from the store
\* (KeyError when it is not there), the cookie is deleted and
\* complete_sso_login_async is called; or the call raised
RecordAffiliationReturns(r) ==
    /\ pc[r] = "affiliation"
    /\ \E o \in {OK, OtherException} :
        IF o.kind = "ok"
        THEN /\ external_ids' =
                  Append(external_ids,
                         [auth_provider |-> "affiliation",
                          external_id |-> frame[r].affiliation_id,
                          user_id |-> frame[r].registered_user_id])
             /\ IF frame[r].session_id \in DOMAIN displayname_mapping_sessions
                THEN /\ displayname_mapping_sessions' =
                          [sid \in DOMAIN displayname_mapping_sessions
                                   \ {frame[r].session_id} |->
                              displayname_mapping_sessions[sid]]
                     /\ request' = [request EXCEPT ![r] = delete_cookie(@)]
                     /\ sso_calls' =
                          Append(sso_calls,
                                 [request |-> r,
                                  registered_user_id |->
                                      frame[r].registered_user_id,
                                  client_redirect_url |->
                                      frame[r].session.client_redirect_url])
                     /\ pc' = [pc EXCEPT ![r] = "sso"]
                     /\ UNCHANGED ended
                ELSE /\ Raises(r, request[r])
                     /\ UNCHANGED <<displayname_mapping_sessions, sso_calls>>
             /\ UNCHANGED <<users, uuids, num_failures, frame, register_calls,
                            last_error, caught>>
        ELSE /\ Raises(r, request[r])
             /\ UNCHANGED <<shared, num_failures, frame, register_calls,
                            last_error, caught>>

\* the response complete_sso_login_async sends: a redirect to the client
sso_response(rq, url) ==
    LET w == request_write([rq EXCEPT !.code = 302], [redirect |-> url])
    IN IF w.raised THEN rq ELSE request_finish(w.rq).rq

\* the await of complete_sso_login_async ends (lines 236-240)
CompleteSsoReturns(r) ==
    /\ pc[r] = "sso"
    /\ \E o \in {OK, OtherException} :
        IF o.kind = "ok"
        THEN Ends(r, sso_response(request[r],
                                  frame[r].session.client_redirect_url), FALSE)
        ELSE Raises(r, request[r])
    /\ UNCHANGED <<shared, num_failures, frame, register_calls, last_error,
                   caught>>

\* the client closes the connection while the handler awaits a collaborator
ConnectionLost(r) ==
    /\ pc[r] \in {"register", "saml", "affiliation", "sso"}
    /\ ~request[r].disconnected
    /\ request' = [request EXCEPT ![r].disconnected = TRUE]
    /\ UNCHANGED <<shared, pc, num_failures, frame, register_calls,
                   last_error, caught, ended>>

Next ==
    \E r \in Requests :
        \/ RenderGET(r)
        \/ RenderPOST(r)
        \/ RegisterUserReturns(r)
        \/ RecordSamlReturns(r)
        \/ RecordAffiliationReturns(r)
        \/ CompleteSsoReturns(r)
        \/ ConnectionLost(r)

Spec == Init /\ [][Next]_vars

\* every collaborator call a handler awaits eventually returns or raises:
\* run_in_background (line 132) resumes the handler when its await ends
FairSpec ==
    /\ Spec
    /\ \A r \in Requests :
        /\ WF_vars(RegisterUserReturns(r))
        /\ WF_vars(RecordSamlReturns(r))
        /\ WF_vars(RecordAffiliationReturns(r))
        /\ WF_vars(CompleteSsoReturns(r))

(***************************************************************************)
(* State functions the properties use                                      *)
(***************************************************************************)
Submission(r) == request[r].method = "POST"
Connected(r) == ~request[r].disconnected
Registered(r) == frame[r].registered_user_id # None
LacksCookie(r) == request[r].cookie = None \/ request[r].cookie[1] = <<>>
LacksDisplayname(r) == "displayname" \notin DOMAIN request[r].args
RecordsOf(u) == SelectSeq(external_ids, LAMBDA x : x.user_id = u)
SsoCallsOf(r) == SelectSeq(sso_calls, LAMBDA c : c.request = r)

MISSING_SESSION_ID == <<400, <<"missing session_id">>>>
UNKNOWN_SESSION == <<403, <<"Unknown session">>>>
MISSING_DISPLAY_NAME == <<400, <<"missing display name">>>>

\* the error page of (code, msg) is the one response the client received
Received(r, code, msg) ==
    /\ request[r].wire # None
    /\ request[r].wire.code = code
    /\ request[r].finished
    /\ request[r].pages =
         <<[title |-> code, p |-> html_escape(Append(msg, HELP_SUFFIX))]>>

(***************************************************************************)
(* C1 (as amended).  A submission that reaches the call of                 *)
(* complete_sso_login_async has written exactly two external-identity      *)
(* records for its new account (the "saml" mapping of the session's remote *)
(* user id, then the "affiliation" mapping), its session is gone from the  *)
(* store, the cookie deletion is set on its response, and the SSO          *)
(* completion was called exactly once, with the new account id and the     *)
(* session's redirect URL.  A submission whose registration succeeded and  *)
(* that ended without reaching that call was stopped by an exception (a    *)
(* record_user_external_id call raised, or the del found the session       *)
(* already removed): it answered with the 500 page, set no cookie, wrote   *)
(* at most two records and never called the SSO completion.                *)
(***************************************************************************)
C1_SuccessPathEffects ==
    \A r \in Requests :
        Registered(r) =>
            LET u == frame[r].registered_user_id
                sid == frame[r].session_id
                recs == RecordsOf(u)
                calls == SsoCallsOf(r)
                deletion == [name |-> SESSION_COOKIE_NAME, value |-> <<>>,
                             expires |-> "Thu, 01 Jan 1970 00:00:00 GMT",
                             path |-> "/"]
            IN /\ Submission(r)
               /\ calls # <<>> =>
                    /\ Len(recs) = 2
                    /\ recs[1] = [auth_provider |-> "saml",
                                  external_id |->
                                      <<InitialSessions[sid].remote_user_id>>,
                                  user_id |-> u]
                    /\ recs[2].auth_provider = "affiliation"
                    /\ recs[2].external_id[1] = InitialSessions[sid].affiliation
                    /\ sid \notin DOMAIN displayname_mapping_sessions
                    /\ request[r].cookies = <<deletion>>
                    /\ request[r].wire # None =>
                           request[r].wire.cookies = <<deletion>>
                    /\ calls =
                         <<[request |-> r, registered_user_id |-> u,
                            client_redirect_url |->
                                InitialSessions[sid].client_redirect_url]>>
               /\ (pc[r] = "done" /\ calls = <<>>) =>
                    /\ Len(recs) <= 2
                    /\ request[r].cookies = <<>>
                    /\ request[r].errors = <<<<500, INTERNAL_ERROR>>>>

\* a submission went through the whole success path and was redirected
C1_Witness ==
    \E r \in Requests :
        /\ pc[r] = "done" /\ Registered(r) /\ ended[r] = "returned"
        /\ SsoCallsOf(r) # <<>>
        /\ request[r].wire # None /\ request[r].wire.code = 302

\* C1 as stated: every submission whose registration call succeeded has, when
\* it ends, written two records, removed the session, cleared the cookie and
\* called the SSO completion once
C1_Original ==
    \A r \in Requests :
        (Submission(r) /\ pc[r] = "done" /\ Registered(r)) =>
            /\ Len(RecordsOf(frame[r].registered_user_id)) = 2
            /\ frame[r].session_id \notin DOMAIN displayname_mapping_sessions
            /\ request[r].cookies # <<>>
            /\ Len(SsoCallsOf(r)) = 1

(***************************************************************************)
(* C2.  A submission calls register_user at most 10 times; once it has     *)
(* caught 10 registration errors it has stopped, and its one error page    *)
(* carries the status code and the message of the 10th error.              *)
(***************************************************************************)
C2_AtMostTenAttempts ==
    \A r \in Requests :
        /\ Len(register_calls[r]) <= 10
        /\ caught[r] <= 10
        /\ caught[r] = 10 =>
             /\ pc[r] = "done" /\ ended[r] = "returned"
             /\ ~Registered(r)
             /\ Len(register_calls[r]) = 10
             /\ request[r].errors =
                  <<<<last_error[r].code, last_error[r].msg>>>>
             /\ request[r].code = last_error[r].code
             /\ Connected(r) =>
                  Received(r, last_error[r].code, last_error[r].msg)

\* all ten candidate names were taken: the page of the user-in-use error
C2_Witness ==
    \E r \in Requests :
        /\ caught[r] = 10 /\ pc[r] = "done"
        /\ last_error[r] = USER_IN_USE
        /\ Received(r, 400, <<"User ID already taken.">>)

(***************************************************************************)
(* C3.  Once a submission has caught a registration error of a kind other  *)
(* than user-in-use it has stopped, with the error page of that error and  *)
(* without a further register_user call.                                   *)
(***************************************************************************)
C3_OtherErrorAborts ==
    \A r \in Requests :
        (last_error[r] # None /\ last_error[r].errcode # "M_USER_IN_USE") =>
            /\ pc[r] = "done"
            /\ Len(register_calls[r]) = caught[r]
            /\ request[r].errors =
                 <<<<last_error[r].code, last_error[r].msg>>>>

(***************************************************************************)
(* C4.  A step removes a session from the store only when it is the step   *)
(* of a submission whose register_user call has succeeded (the step that   *)
(* follows its second external-identity record), and it removes that       *)
(* submission's session only; a step in which a submission ends without a  *)
(* registered user leaves the store as it was, so the session it resolved  *)
(* still resolves.                                                         *)
(***************************************************************************)
C4_SessionKeptUntilRegistered ==
    [][/\ displayname_mapping_sessions' # displayname_mapping_sessions =>
            \E r \in Requests :
                /\ Submission(r) /\ Registered(r)
                /\ frame[r].localpart \in users
                /\ pc[r] = "affiliation" /\ pc'[r] = "sso"
                /\ DOMAIN displayname_mapping_sessions' =
                     DOMAIN displayname_mapping_sessions \ {frame[r].session_id}
                /\ \A sid \in DOMAIN displayname_mapping_sessions' :
                     displayname_mapping_sessions'[sid] =
                         displayname_mapping_sessions[sid]
       /\ \A r \in Requests :
            (pc[r] # "done" /\ pc'[r] = "done" /\ ~Registered(r)') =>
                displayname_mapping_sessions' = displayname_mapping_sessions
      ]_vars

\* a submission gave up after a rejected registration and its session is
\* still in the store
C4_Witness ==
    \E r \in Requests :
        /\ Submission(r) /\ pc[r] = "done" /\ ~Registered(r)
        /\ caught[r] > 0
        /\ frame[r].session_id \in DOMAIN displayname_mapping_sessions

(***************************************************************************)
(* C5.  A request whose session resolution failed (first error page 400    *)
(* "missing session_id" or 403 "Unknown session") makes no second call of  *)
(* the error helper, and no exception leaves its handler.                  *)
(***************************************************************************)
C5_OneResponseOnly ==
    \A r \in Requests :
        (/\ request[r].errors # <<>>
         /\ request[r].errors[1] \in {MISSING_SESSION_ID, UNKNOWN_SESSION}) =>
            /\ Len(request[r].errors) = 1
            /\ ended[r] # "escaped"

(***************************************************************************)
(* C6.  A request without session cookie (none, or an empty one) is        *)
(* answered "missing session_id" with status 400: that is the first error  *)
(* page of its handler, and over a live connection the status line the     *)
(* client receives is 400, with the page of that error as the only body.   *)
(***************************************************************************)
C6_MissingCookie400 ==
    \A r \in Requests :
        (pc[r] = "done" /\ LacksCookie(r)) =>
            /\ request[r].errors # <<>>
            /\ request[r].errors[1] = MISSING_SESSION_ID
            /\ register_calls[r] = <<>>
            /\ Connected(r) => Received(r, 400, <<"missing session_id">>)

\* a form request and a submission, both without cookie, answered 400
C6_Witness ==
    \E r, q \in Requests :
        /\ request[r].method = "GET" /\ request[q].method = "POST"
        /\ pc[r] = "done" /\ pc[q] = "done"
        /\ request[r].cookie = None /\ request[q].cookie = <<<<>>>>
        /\ Received(r, 400, <<"missing session_id">>)
        /\ Received(q, 400, <<"missing session_id">>)

(***************************************************************************)
(* C7.  In a step in which a request resolves its session (on arrival, or  *)
(* when a submission re-enters its handler after a rejected registration)  *)
(* and the decoded cookie is no key of the session store, the handler      *)
(* ends, "Unknown session" with status 403 is its first error page and,    *)
(* over a live connection, the response the client receives, and the step  *)
(* calls register_user no more.                                            *)
(***************************************************************************)
C7_UnknownSession403 ==
    [][\A r \in Requests :
        (/\ \/ pc[r] = "idle" /\ pc'[r] # "idle"
            \/ /\ pc[r] = "register"
               /\ caught'[r] = caught[r] + 1
               /\ num_failures[r] < 9
         /\ request'[r].cookie # None
         /\ request'[r].cookie[1] # <<>>
         /\ decode_ascii(request'[r].cookie[1])
                \notin DOMAIN displayname_mapping_sessions) =>
            /\ pc'[r] = "done"
            /\ request'[r].errors # <<>>
            /\ request'[r].errors[1] = UNKNOWN_SESSION
            /\ register_calls'[r] = register_calls[r]
            /\ ~request'[r].disconnected =>
                 /\ request'[r].wire # None
                 /\ request'[r].wire.code = 403
                 /\ request'[r].pages =
                      <<[title |-> 403,
                         p |-> <<"Unknown session", HELP_SUFFIX>>]>>
      ]_vars

\* a submission lost its session to another one while it awaited
\* register_user, and was answered 403 on its retry
C7_Witness ==
    \E r \in Requests :
        /\ Submission(r) /\ pc[r] = "done"
        /\ register_calls[r] # <<>>
        /\ request[r].errors # <<>>
        /\ request[r].errors[1] = UNKNOWN_SESSION
        /\ request[r].wire # None /\ request[r].wire.code = 403

(***************************************************************************)
(* C8 (as amended).  A submission without the displayname field never      *)
(* calls register_user; when its session resolves it is answered           *)
(* "missing display name" with status 400 and that is its only error page; *)
(* when the session does not resolve, the 400 or 403 of the session        *)
(* resolution comes first.                                                 *)
(***************************************************************************)
C8_MissingDisplayname ==
    \A r \in Requests :
        (Submission(r) /\ pc[r] = "done" /\ LacksDisplayname(r)) =>
            /\ register_calls[r] = <<>>
            /\ caught[r] = 0
            /\ request[r].errors # <<>>
            /\ request[r].errors[1] \in
                 {MISSING_DISPLAY_NAME, MISSING_SESSION_ID, UNKNOWN_SESSION}
            /\ (/\ ~LacksCookie(r)
                /\ decode_ascii(request[r].cookie[1])
                       \in DOMAIN displayname_mapping_sessions) =>
                 /\ request[r].errors = <<MISSING_DISPLAY_NAME>>
                 /\ ended[r] = "returned"
                 /\ Connected(r) =>
                      Received(r, 400, <<"missing display name">>)

\* a submission with a valid session and no displayname, answered 400
C8_Witness ==
    \E r \in Requests :
        /\ Submission(r) /\ pc[r] = "done" /\ LacksDisplayname(r)
        /\ request[r].cookie = <<<<115, 49>>>>
        /\ Received(r, 400, <<"missing display name">>)

\* C8 as stated: every submission without the displayname field is answered
\* with status 400 and calls register_user never
C8_Original ==
    \A r \in Requests :
        (Submission(r) /\ pc[r] = "done" /\ LacksDisplayname(r)) =>
            /\ register_calls[r] = <<>>
            /\ request[r].wire # None => request[r].wire.code = 400

(***************************************************************************)
(* C9.  The i-th register_user call of a submission has as localpart the   *)
(* text of the session's email before the '@' when i = 1 and that text     *)
(* followed by the decimal i - 1 when i > 1, as display name the submitted *)
(* one, and as emails the session's email alone.                           *)
(***************************************************************************)
C9_CandidateUsernames ==
    \A r \in Requests :
        \A i \in 1..Len(register_calls[r]) :
            LET known == request[r].cookie[1] = <<115, 49>>
                kerb == IF known THEN <<"a", "l">> ELSE <<"b", "o">>
                email == IF known THEN <<"a", "l", "@", "m">>
                                  ELSE <<"b", "o", "@", "m">>
                suffix == <<"1", "2", "3", "4", "5", "6", "7", "8", "9">>
            IN /\ request[r].cookie[1] \in SessionIds
               /\ register_calls[r][i] =
                    [localpart |-> IF i = 1 THEN kerb
                                   ELSE Append(kerb, suffix[i - 1]),
                     displayname |-> request[r].args["displayname"][1],
                     emails |-> <<email>>]

\* a submission made all ten attempts
C9_Witness ==
    \E r \in Requests :
        /\ Len(register_calls[r]) = 10
        /\ register_calls[r][1].localpart = <<"a", "l">>
        /\ register_calls[r][10].localpart = <<"a", "l", "9">>

(***************************************************************************)
(* C10.  Two submissions carrying the same session identifier can both     *)
(* get a user registered (the witness); when they do, the two users are    *)
(* different accounts of the host, registered under different candidate    *)
(* names of the one session.                                               *)
(***************************************************************************)
C10_TwoAccountsAreDistinct ==
    \A r, q \in Requests :
        (/\ r # q /\ Registered(r) /\ Registered(q)
         /\ frame[r].session_id = frame[q].session_id) =>
            /\ frame[r].registered_user_id # frame[q].registered_user_id
            /\ {frame[r].localpart, frame[q].localpart} \subseteq users
            /\ num_failures[r] # num_failures[q]

\* two accounts were registered from one pending session
C10_TwoAccountsFromOneSession ==
    \E r, q \in Requests :
        /\ r # q /\ Submission(r) /\ Submission(q)
        /\ request[r].cookie = request[q].cookie
        /\ Registered(r) /\ Registered(q)
        /\ frame[r].session_id = frame[q].session_id
        /\ frame[r].registered_user_id # frame[q].registered_user_id

(***************************************************************************)
(* C11.  A step removes at most one session from the store, and the step   *)
(* of a submission that reaches the del of line 226 (its second            *)
(* external-identity record has just been written) finds its session       *)
(* identifier still in the store: no submission reaches the del for an     *)
(* identifier another submission has removed.                              *)
(***************************************************************************)
C11_SingleDelete ==
    [][/\ Cardinality(DOMAIN displayname_mapping_sessions
                        \ DOMAIN displayname_mapping_sessions') <= 1
       /\ \A r \in Requests :
            (pc[r] = "affiliation" /\ Len(external_ids') > Len(external_ids)) =>
                frame[r].session_id \in DOMAIN displayname_mapping_sessions
      ]_vars

(***************************************************************************)
(* C12 (as amended).  A submission that ends with an error page and        *)
(* without a registered user has left no trace: it set no cookie and       *)
(* called no SSO completion, and every external-identity record, every SSO *)
(* call, every removed session and every user added at the host belongs to *)
(* a submission whose register_user call succeeded.  A submission that     *)
(* ends with an error page after its registration succeeded was stopped by *)
(* an exception: its one error page is the 500 page, and the account it    *)
(* registered stays at the host.                                           *)
(***************************************************************************)
C12_NoTraceBeforeRegistration ==
    /\ \A r \in Requests :
        (Submission(r) /\ pc[r] = "done" /\ request[r].errors # <<>>) =>
            IF Registered(r)
            THEN /\ request[r].errors = <<<<500, INTERNAL_ERROR>>>>
                 /\ frame[r].localpart \in users
            ELSE /\ SsoCallsOf(r) = <<>>
                 /\ request[r].cookies = <<>>
    /\ \A i \in DOMAIN external_ids :
        \E q \in Requests :
            /\ Registered(q)
            /\ frame[q].registered_user_id = external_ids[i].user_id
    /\ \A i \in DOMAIN sso_calls : Registered(sso_calls[i].request)
    /\ \A sid \in SessionIds \ DOMAIN displayname_mapping_sessions :
        \E q \in Requests :
            Registered(q) /\ frame[q].session_id = sid /\ SsoCallsOf(q) # <<>>
    /\ Cardinality(users) - Cardinality({q \in Requests : Registered(q)})
           \in {0, MaxTaken}

\* one submission gave up without a registered user, another one registered
\* a user and was then stopped before its first external-identity record
C12_Witness ==
    \E r, q \in Requests :
        /\ Submission(r) /\ pc[r] = "done" /\ ~Registered(r) /\ caught[r] > 0
        /\ request[r].errors # <<>>
        /\ Submission(q) /\ pc[q] = "done" /\ Registered(q)
        /\ request[q].errors = <<<<500, INTERNAL_ERROR>>>>
        /\ RecordsOf(frame[q].registered_user_id) = <<>>

\* C12 as stated: a submission that ends with an error page has registered
\* no user, written no record, removed no session and called no SSO completion
C12_Original ==
    \A r \in Requests :
        (Submission(r) /\ pc[r] = "done" /\ request[r].errors # <<>>) =>
            /\ ~Registered(r)
            /\ SsoCallsOf(r) = <<>>
            /\ request[r].cookies = <<>>

(***************************************************************************)
(* C13.  In a step in which a collaborator call of a submission            *)
(* (register_user, record_user_external_id, complete_sso_login_async)      *)
(* raises an exception that is no SynapseError, the handler ends without   *)
(* another register_user call, the 500 "Internal server error" page is its *)
(* one error page and, over a live connection, the response the client     *)
(* receives, and no exception leaves the handler.  (An exception of        *)
(* complete_sso_login_async is raised before it has written a response.)   *)
(***************************************************************************)
C13_UnexpectedIs500 ==
    [][\A r \in Requests :
        (/\ pc'[r] = "done"
         /\ \/ pc[r] = "register" /\ caught'[r] = caught[r]
            \/ pc[r] = "saml"
            \/ pc[r] = "affiliation" /\ external_ids' = external_ids
            \/ pc[r] = "sso" /\ request'[r].errors # request[r].errors) =>
            /\ register_calls'[r] = register_calls[r]
            /\ ended'[r] = "returned"
            /\ request'[r].errors = <<<<500, INTERNAL_ERROR>>>>
            /\ request'[r].code = 500
            /\ ~request'[r].disconnected =>
                 /\ request'[r].wire # None
                 /\ request'[r].wire.code = 500
                 /\ request'[r].finished
                 /\ request'[r].pages =
                      <<[title |-> 500,
                         p |-> <<"Internal server error", HELP_SUFFIX>>]>>
      ]_vars

\* register_user raised on a retry, a record_user_external_id call raised,
\* and both requests were answered 500
C13_Witness ==
    \E r, q \in Requests :
        /\ Submission(r) /\ pc[r] = "done" /\ ~Registered(r)
        /\ caught[r] > 0 /\ Len(register_calls[r]) = caught[r] + 1
        /\ Received(r, 500, INTERNAL_ERROR)
        /\ Submission(q) /\ pc[q] = "done" /\ Registered(q)
        /\ Len(RecordsOf(frame[q].registered_user_id)) = 1
        /\ Received(q, 500, INTERNAL_ERROR)
        /\ ended[r] = "returned" /\ ended[q] = "returned"

(***************************************************************************)
(* C14.  The steps of the success path come in this order.  The "saml"     *)
(* record of a user is written when the user is registered and has no      *)
(* record yet; the "affiliation" record when the "saml" record is the      *)
(* user's only one; a session is removed by a submission whose two records *)
(* are written, in the step that also sets the cookie deletion and calls   *)
(* the SSO completion; the SSO completion is called for a request whose    *)
(* session is gone from the store and whose cookie deletion is set, before *)
(* anything of the response has been sent.                                 *)
(***************************************************************************)
RecordsIn(ids, u) == SelectSeq(ids, LAMBDA x : x.user_id = u)

C14_SuccessPathOrder ==
    [][/\ Len(external_ids') > Len(external_ids) =>
            LET x == external_ids'[Len(external_ids')]
                before == RecordsIn(external_ids, x.user_id)
            IN /\ external_ids' = Append(external_ids, x)
               /\ \E r \in Requests :
                    /\ frame[r].registered_user_id = x.user_id
                    /\ frame[r].localpart \in users
                    /\ pc[r] = x.auth_provider
               /\ x.auth_provider = "saml" => before = <<>>
               /\ x.auth_provider = "affiliation" =>
                    /\ Len(before) = 1
                    /\ before[1].auth_provider = "saml"
       /\ \A sid \in DOMAIN displayname_mapping_sessions
                        \ DOMAIN displayname_mapping_sessions' :
            \E r \in Requests :
                LET recs == RecordsIn(external_ids', frame[r].registered_user_id)
                IN /\ Registered(r) /\ frame[r].session_id = sid
                   /\ Len(recs) = 2
                   /\ recs[1].auth_provider = "saml"
                   /\ recs[2].auth_provider = "affiliation"
                   /\ Len(request'[r].cookies) = Len(request[r].cookies) + 1
                   /\ Len(sso_calls') = Len(sso_calls) + 1
                   /\ sso_calls'[Len(sso_calls')].request = r
       /\ Len(sso_calls') > Len(sso_calls) =>
            LET c == sso_calls'[Len(sso_calls')]
            IN /\ sso_calls' = Append(sso_calls, c)
               /\ frame[c.request].session_id
                      \in DOMAIN displayname_mapping_sessions
               /\ frame[c.request].session_id
                      \notin DOMAIN displayname_mapping_sessions'
               /\ request[c.request].cookies = <<>>
               /\ Len(request'[c.request].cookies) = 1
               /\ request'[c.request].wire = None
               /\ Len(RecordsIn(external_ids', c.registered_user_id)) = 2
      ]_vars

\* a submission awaits complete_sso_login_async, its two records written
C14_Witness ==
    \E r \in Requests :
        /\ pc[r] = "sso"
        /\ Len(RecordsOf(frame[r].registered_user_id)) = 2
        /\ frame[r].session_id \notin DOMAIN displayname_mapping_sessions
        /\ request[r].cookies # <<>>

(***************************************************************************)
(* C15 (as amended).  A submission yields at its four awaits: of           *)
(* register_user, of the two record_user_external_id calls and of          *)
(* complete_sso_login_async.  A step is the run of one handler from one    *)
(* await to the next (or to its end): one handler advances per step, the   *)
(* shared state changes only in such a step, and the removal of a session  *)
(* happens in the run that starts at the return of the second              *)
(* record_user_external_id call and ends at the call of the SSO            *)
(* completion.                                                             *)
(***************************************************************************)
Advances(r) == pc'[r] # pc[r] \/ caught'[r] # caught[r]

C15_YieldPoints ==
    [][/\ \A r, q \in Requests : (r # q /\ Advances(r)) => ~Advances(q)
       /\ shared' # shared => \E r \in Requests : Advances(r)
       /\ \A r \in Requests :
            <<pc[r], pc'[r]>> \in
                {<<"idle", "idle">>, <<"idle", "register">>, <<"idle", "done">>,
                 <<"register", "register">>, <<"register", "saml">>,
                 <<"register", "done">>,
                 <<"saml", "saml">>, <<"saml", "affiliation">>,
                 <<"saml", "done">>,
                 <<"affiliation", "affiliation">>, <<"affiliation", "sso">>,
                 <<"affiliation", "done">>,
                 <<"sso", "sso">>, <<"sso", "done">>, <<"done", "done">>}
       /\ \A r \in Requests :
            (pc[r] = "affiliation" /\ pc'[r] = "sso") =>
                /\ Registered(r)
                /\ frame[r].session_id \in DOMAIN displayname_mapping_sessions
                /\ frame[r].session_id
                       \notin DOMAIN displayname_mapping_sessions'
       /\ DOMAIN displayname_mapping_sessions'
              # DOMAIN displayname_mapping_sessions =>
            \E r \in Requests :
                /\ pc[r] = "affiliation" /\ pc'[r] = "sso"
                /\ DOMAIN displayname_mapping_sessions
                       \ DOMAIN displayname_mapping_sessions'
                     = {frame[r].session_id}
      ]_vars

\* two submissions are both between the return of their successful
\* registration and the removal of their session
C15_Witness ==
    \E r, q \in Requests :
        /\ r # q /\ Registered(r) /\ Registered(q)
        /\ frame[r].session_id = frame[q].session_id
        /\ pc[r] \in {"saml", "affiliation"}
        /\ pc[q] \in {"saml", "affiliation"}

\* C15 as stated: while a submission is between the return of its successful
\* registration and the removal of its session, no other request takes a step
C15_Original ==
    [][\A r, q \in Requests :
        (r # q /\ Registered(r) /\ pc[r] \in {"saml", "affiliation"}) =>
            ~Advances(q)
      ]_vars

(***************************************************************************)
(* C16.  A request whose connection is closed when its response is         *)
(* finalized ends with its handler returned: no exception leaves the       *)
(* handler and nothing is sent.  The failure of request.finish calls for   *)
(* no further error page: the form handler that resolved its session calls *)
(* the error helper not at all, an error page is the only one of its       *)
(* request, and a second call of the error helper (the 500 page) follows   *)
(* only the error page of a failed session resolution, where the TypeError *)
(* of the caller's unpacking asks for it, on a live connection as well.    *)
(***************************************************************************)
C16_ClosedConnectionSwallowed ==
    \A r \in Requests :
        (pc[r] = "done" /\ request[r].disconnected) =>
            /\ ended[r] = "returned"
            /\ request[r].wire = None
            /\ request[r].pages = <<>>
            /\ ~request[r].finished
            /\ Len(request[r].errors) <= 2
            /\ Len(request[r].errors) = 2 =>
                 /\ request[r].errors[1] \in
                        {MISSING_SESSION_ID, UNKNOWN_SESSION}
                 /\ request[r].errors[2] = <<500, INTERNAL_ERROR>>
            /\ (/\ request[r].method = "GET"
                /\ ~LacksCookie(r)
                /\ decode_ascii(request[r].cookie[1])
                       \in DOMAIN displayname_mapping_sessions) =>
                 /\ request[r].errors = <<>>
                 /\ request[r].code = 200

\* over closed connections: a form request with a pending session, and a
\* submission without displayname that called the error helper once
C16_Witness ==
    \E r, q \in Requests :
        /\ request[r].method = "GET" /\ pc[r] = "done"
        /\ request[r].disconnected /\ request[r].cookie = <<<<115, 49>>>>
        /\ request[r].errors = <<>>
        /\ Submission(q) /\ pc[q] = "done" /\ request[q].disconnected
        /\ request[q].errors = <<MISSING_DISPLAY_NAME>>
        /\ ended[r] = "returned" /\ ended[q] = "returned"

(***************************************************************************)
(* C17.  The step in which a submission calls register_user, for the first *)
(* time or on a retry, has resolved the session of its cookie in the same  *)
(* step: the session is in the store when the call is made, and the frame  *)
(* holds the record the store holds.  A submission whose register_user     *)
(* call is rejected when its session is no longer in the store ends        *)
(* without another register_user call.                                     *)
(***************************************************************************)
C17_FreshResolution ==
    [][\A r \in Requests :
        /\ register_calls'[r] # register_calls[r] =>
             LET sid == frame'[r].session_id
             IN /\ Len(register_calls'[r]) = Len(register_calls[r]) + 1
                /\ pc'[r] = "register"
                /\ sid = decode_ascii(request'[r].cookie[1])
                /\ sid \in DOMAIN displayname_mapping_sessions
                /\ sid \in DOMAIN displayname_mapping_sessions'
                /\ frame'[r].session = displayname_mapping_sessions'[sid]
        /\ (/\ pc[r] = "register"
            /\ caught'[r] = caught[r] + 1
            /\ frame[r].session_id \notin DOMAIN displayname_mapping_sessions) =>
             /\ register_calls'[r] = register_calls[r]
             /\ pc'[r] = "done"
      ]_vars

\* a submission completed the SSO call and removed the session while another
\* one awaited register_user; the other one's call was rejected and it made
\* no further call
C17_Witness ==
    \E r, q \in Requests :
        /\ r # q /\ Submission(r) /\ Submission(q)
        /\ request[r].cookie = request[q].cookie
        /\ SsoCallsOf(q) # <<>>
        /\ pc[r] = "done" /\ ~Registered(r)
        /\ caught[r] > 0 /\ Len(register_calls[r]) = caught[r]
        /\ caught[r] < 10

\* the handler of request r awaits a collaborator call
Awaiting(r) == pc[r] \in {"register", "saml", "affiliation", "sso"}

(***************************************************************************)
(* C18.  When every collaborator call eventually returns or raises, a      *)
(* submission that awaits one eventually ends, whatever the other requests *)
(* do.  A submission never makes more than ten register_user calls, and    *)
(* one that has ended has called _return_html_error or                     *)
(* complete_sso_login_async.                                               *)
(***************************************************************************)
C18_Terminates ==
    /\ \A r \in Requests : Awaiting(r) ~> pc[r] = "done"
    /\ [](\A r \in Requests :
            /\ Len(register_calls[r]) <= 10
            /\ (Submission(r) /\ pc[r] = "done") =>
                 (request[r].errors # <<>> \/ SsoCallsOf(r) # <<>>))

\* two submissions of one session have both ended: one after ten
\* register_user calls and an error page, the other after the SSO call
C18_Witness ==
    \E r, q \in Requests :
        /\ r # q /\ Submission(r) /\ Submission(q)
        /\ request[r].cookie = request[q].cookie
        /\ pc[r] = "done" /\ pc[q] = "done"
        /\ Len(register_calls[r]) = 10
        /\ request[r].errors # <<>>
        /\ SsoCallsOf(q) # <<>>

====
